---- MODULE Spec2Model ----
(***************************************************************************)
(* A model of datashader/core.py: the Axis transforms (LinearAxis,         *)
(* LogAxis), the Canvas configuration object, and the bypixel orchestrator *)
(* with its pipeline Dispatcher.                                           *)
(*                                                                         *)
(* Numbers.  The code computes in IEEE-754 binary64.  The model computes   *)
(* with exact rationals extended by +inf, -inf and nan, which behave as    *)
(* in IEEE-754 (inf - inf = nan, 0 * inf = nan, x / inf = 0, nan is not    *)
(* equal to itself).  Rounding and the sign of zero are not modelled, so   *)
(* an equality of the model is an equality up to rounding in the code.     *)
(* A number is a record [n, d, p]:                                         *)
(*    p = 0, d > 0 : the rational n/d in lowest terms                      *)
(*    p = 0, d = 0 : +inf (n = 1), -inf (n = -1), nan (n = 0)              *)
(*    p = 1        : 10 to the power n/d, n/d a non-integer rational       *)
(***************************************************************************)
EXTENDS Integers, Sequences, FiniteSets, TLC

\* Largest pixel count n tried on scale_and_translation / compute_index.
MaxN == 10

\* Largest |k| for which 10^k is recognised by Log10.
MaxExp == 2

VARIABLES
    \* ---- Axis scenario
    axSelf,     \* the Axis instance the methods are called on
    axRange,    \* the (start, end) pair passed as range
    axN,        \* the pixel count n
    axSt,       \* what scale_and_translation did: a pair (s, t) or an exception
    axIndex,    \* what compute_index returned
    axPc,       \* "start", "scaled", "raised", "indexed"
    cmp,        \* the last comparison of two Axis instances
    \* ---- Canvas scenario
    cvArgs,     \* the arguments of the last Canvas(...) call
    cvSelf,     \* the Canvas that call yielded, or NoCanvas
    cvExc,      \* the exception it raised, or "none"
    \* ---- bypixel scenario
    lookup,     \* pipeline._lookup: the Dispatcher's registry
    pc,         \* the line bypixel is about to execute, or "idle" / "done"
    req,        \* the arguments of the running request
    dshape,     \* discover(source)
    schema,     \* dshape.measure
    calls,      \* the collaborators called so far by this request, in order
    outcome     \* how the request ended: a return value or an exception

axVars == <<axSelf, axRange, axN, axSt, axIndex, axPc, cmp>>
cvVars == <<cvArgs, cvSelf, cvExc>>
bpVars == <<lookup, pc, req, dshape, schema, calls, outcome>>
vars == <<axVars, cvVars, bpVars>>

----------------------------------------------------------------------------
\* Extended rational arithmetic

Abs(x) == IF x < 0 THEN -x ELSE x

Sign(x) == IF x < 0 THEN -1 ELSE IF x > 0 THEN 1 ELSE 0

RECURSIVE GCD(_, _)
GCD(a, b) == IF b = 0 THEN a ELSE GCD(b, a % b)

Rat(n, d) ==
    IF d = 0 THEN [n |-> Sign(n), d |-> 0, p |-> 0]
    ELSE LET g == GCD(Abs(n), Abs(d))
             sg == Sign(d)
         IN  [n |-> (sg * n) \div g, d |-> (sg * d) \div g, p |-> 0]

Int2Num(k) == Rat(k, 1)
Zero == Rat(0, 1)
PosInf == Rat(1, 0)
NegInf == Rat(-1, 0)
NaN == Rat(0, 0)

IsNaN(a) == a.p = 0 /\ a.d = 0 /\ a.n = 0
IsFinite(a) == a.p = 0 /\ a.d > 0

\* IEEE comparison a == b: nan equals nothing.
FEq(a, b) == ~IsNaN(a) /\ ~IsNaN(b) /\ a = b

Neg(a) == Rat(-a.n, a.d)

Add(a, b) ==
    IF IsNaN(a) \/ IsNaN(b) THEN NaN
    ELSE IF a.d = 0 /\ b.d = 0 THEN (IF a.n = b.n THEN a ELSE NaN)
    ELSE IF a.d = 0 THEN a
    ELSE IF b.d = 0 THEN b
    ELSE Rat(a.n * b.d + b.n * a.d, a.d * b.d)

Sub(a, b) == Add(a, Neg(b))

Mul(a, b) == Rat(a.n * b.n, a.d * b.d)

\* IEEE division (numpy's a / b): x/0 is inf or nan, never an exception.
Div(a, b) ==
    IF b.d = 0 THEN Mul(a, Rat(0, Abs(b.n)))
    ELSE IF b.n = 0 THEN Mul(a, PosInf)
    ELSE Mul(a, Rat(Sign(b.n) * b.d, Abs(b.n)))

RECURSIVE TenTo(_)
TenTo(k) == IF k = 0 THEN 1 ELSE 10 * TenTo(k - 1)

\* np.log10(x): -inf at 0, nan below 0, k at 10^k.
Log10(x) ==
    IF x.p = 1 THEN Rat(x.n, x.d)
    ELSE IF x.d = 0 THEN (IF x.n = 1 THEN PosInf ELSE NaN)
    ELSE IF x.n = 0 THEN NegInf
    ELSE IF x.n < 0 THEN NaN
    ELSE LET k == CHOOSE e \in -MaxExp..MaxExp :
                     x = (IF e >= 0 THEN Rat(TenTo(e), 1) ELSE Rat(1, TenTo(-e)))
         IN  Int2Num(k)

\* 10**x: inf at inf, 0 at -inf, nan at nan.
Pow10(x) ==
    IF x.d = 0 THEN (IF x.n = -1 THEN Zero ELSE x)
    ELSE IF x.d = 1 THEN (IF x.n >= 0 THEN Rat(TenTo(x.n), 1) ELSE Rat(1, TenTo(-x.n)))
    ELSE [n |-> x.n, d |-> x.d, p |-> 1]

----------------------------------------------------------------------------
\* Axis

\* An Axis instance: its identity and its class.
LinearAxis(i) == [id |-> i, class |-> "LinearAxis"]
LogAxis(i) == [id |-> i, class |-> "LogAxis"]

\* _axis_lookup holds one instance of each class; callers may make more.
_axis_lookup == [linear |-> LinearAxis(1), log |-> LogAxis(2)]
AxisInstances == {LinearAxis(1), LogAxis(2), LinearAxis(3), LogAxis(4)}

\* Axis.__eq__
AxisEqById(self, other) == self.id = other.id
AxisEq(self, other) == self.class = other.class

\* Axis.__ne__
AxisNe(self, other) == ~AxisEq(self, other)

\* Axis.__hash__: hash(type(self)), one hash per class.
AxisHash(self) == IF self.class = "LinearAxis" THEN 1 ELSE 2

\* LinearAxis.mapper / LogAxis.mapper
mapper(self, x) == IF self.class = "LinearAxis" THEN x ELSE Log10(x)

\* LinearAxis.inverse_mapper / LogAxis.inverse_mapper
inverse_mapper(self, x) == IF self.class = "LinearAxis" THEN x ELSE Pow10(x)

NoSt == [exc |-> "unset"]
Raised(e) == [exc |-> e]

\* s = (n - 1)/(end - start), on Python scalars: a zero divisor raises
\* ZeroDivisionError, an infinite or nan divisor does not.
ScaleOffByOne(n, w) ==
    IF w = Zero THEN Raised("ZeroDivisionError")
    ELSE [exc |-> "none", s |-> Div(Int2Num(n), w)]
Scale(n, w) ==
    IF w = Zero THEN Raised("ZeroDivisionError")
    ELSE [exc |-> "none", s |-> Div(Int2Num(n - 1), w)]

\* t = -start * s
TranslationNoNeg(start, s) == Mul(start, s)
Translation(start, s) == Mul(Neg(start), s)

\* Axis.scale_and_translation
scale_and_translation(self, range, n) ==
    LET start == mapper(self, range[1])
        end == mapper(self, range[2])
        q == Scale(n, Sub(end, start))
    IN  IF q.exc # "none" THEN q
        ELSE [exc |-> "none", s |-> q.s, t |-> Translation(start, q.s)]

\* Axis.compute_index
compute_index(self, n, st) ==
    [i \in 1..n |-> inverse_mapper(self, Div(Sub(Int2Num(i - 1), st.t), st.s))]

----------------------------------------------------------------------------
\* The Axis scenario: one scale_and_translation, then one compute_index, and
\* comparisons of Axis instances.

\* The bounds tried with the linear policy.
LinVals == {Rat(-1, 1), Zero, Rat(1, 2), Rat(1, 1), Rat(9, 1)}

\* The bounds tried with the log policy: a negative one, zero, powers of ten.
LogVals == {Rat(-1, 1), Zero} \cup {Pow10(Int2Num(e)) : e \in -1..MaxExp}

ValsOf(self) == IF self.class = "LinearAxis" THEN LinVals ELSE LogVals

NoCmp == [set |-> FALSE]

AxisIdle ==
    /\ axSelf = _axis_lookup.linear
    /\ axRange = <<Zero, Zero>>
    /\ axN = 0
    /\ axSt = NoSt
    /\ axIndex = <<>>
    /\ axPc = "off"
    /\ cmp = NoCmp

AxisInit ==
    /\ axSelf \in {_axis_lookup.linear, _axis_lookup.log}
    /\ axRange \in ValsOf(axSelf) \X ValsOf(axSelf)
    /\ axN \in 1..MaxN
    /\ axSt = NoSt
    /\ axIndex = <<>>
    /\ axPc = "start"
    /\ cmp = NoCmp

ScaleAndTranslation ==
    /\ axPc = "start"
    /\ axSt' = scale_and_translation(axSelf, axRange, axN)
    /\ axPc' = IF axSt'.exc = "none" THEN "scaled" ELSE "raised"
    /\ UNCHANGED <<axSelf, axRange, axN, axIndex, cmp, cvVars, bpVars>>

ComputeIndex ==
    /\ axPc = "scaled"
    /\ axIndex' = compute_index(axSelf, axN, axSt)
    /\ axPc' = "indexed"
    /\ UNCHANGED <<axSelf, axRange, axN, axSt, cmp, cvVars, bpVars>>

AxisCompare ==
    /\ \E a \in AxisInstances, b \in AxisInstances :
          cmp' = [set |-> TRUE, a |-> a, b |-> b,
                  eq |-> AxisEq(a, b), ne |-> AxisNe(a, b),
                  ha |-> AxisHash(a), hb |-> AxisHash(b)]
    /\ UNCHANGED <<axSelf, axRange, axN, axSt, axIndex, axPc, cvVars, bpVars>>

----------------------------------------------------------------------------
\* Canvas

\* Python values passed as x_range / y_range.
PyNone == [type |-> "NoneType", items |-> <<>>]
PyTuple(items) == [type |-> "tuple", items |-> items]
PyList(items) == [type |-> "list", items |-> items]

\* bool(v) of None, a tuple or a list.
Truthy(v) == v.type # "NoneType" /\ Len(v.items) > 0

\* tuple(v)
tuple(v) == PyTuple(v.items)

\* tuple(x_range) if x_range else x_range
NormRange(v) == IF Truthy(v) THEN tuple(v) ELSE v

\* Defaults of Canvas.__init__'s parameters.
DefaultPlotWidth == 600
DefaultPlotHeight == 600
DefaultRange == PyNone
DefaultAxisType == "linear"

\* An argument of a call: given with a value, or left out.
Given(x) == [given |-> TRUE, v |-> x]
Omitted(placeholder) == [given |-> FALSE, v |-> placeholder]
Param(arg, default) == IF arg.given THEN arg.v ELSE default

\* _axis_lookup[name]: KeyError for a name that is no key.
AxisLookupLenient(name) ==
    IF name \in DOMAIN _axis_lookup THEN [exc |-> "none", axis |-> _axis_lookup[name]]
    ELSE [exc |-> "none", axis |-> _axis_lookup.linear]
AxisLookup(name) ==
    IF name \in DOMAIN _axis_lookup THEN [exc |-> "none", axis |-> _axis_lookup[name]]
    ELSE [exc |-> "KeyError"]

NoCanvas == [made |-> FALSE]

\* Canvas.__init__: the Canvas it yields, or the exception it raises.
Canvas__init__(args) ==
    LET plot_width == Param(args.plot_width, DefaultPlotWidth)
        plot_height == Param(args.plot_height, DefaultPlotHeight)
        x_range == Param(args.x_range, DefaultRange)
        y_range == Param(args.y_range, DefaultRange)
        x_axis == AxisLookup(Param(args.x_axis_type, DefaultAxisType))
        y_axis == AxisLookup(Param(args.y_axis_type, DefaultAxisType))
    IN  IF x_axis.exc # "none" THEN [exc |-> x_axis.exc, self |-> NoCanvas]
        ELSE IF y_axis.exc # "none" THEN [exc |-> y_axis.exc, self |-> NoCanvas]
        ELSE [exc |-> "none",
              self |-> [made |-> TRUE,
                        plot_width |-> plot_width,
                        plot_height |-> plot_height,
                        x_range |-> NormRange(x_range),
                        y_range |-> NormRange(y_range),
                        x_axis |-> x_axis.axis,
                        y_axis |-> y_axis.axis]]

\* The arguments tried.
Opt(S, placeholder) == {Given(x) : x \in S} \cup {Omitted(placeholder)}
RangeArgs == {PyNone, PyTuple(<<0, 9>>), PyList(<<0, 9>>), PyList(<<>>), PyTuple(<<>>)}
AxisTypeArgs == {"linear", "log", "bogus"}
CanvasArgs ==
    [plot_width : Opt({10}, 0), plot_height : {Omitted(0)},
     x_range : Opt(RangeArgs, PyNone), y_range : Opt(RangeArgs, PyNone),
     x_axis_type : Opt(AxisTypeArgs, ""), y_axis_type : Opt(AxisTypeArgs, "")]

NoArgs ==
    [plot_width |-> Omitted(0), plot_height |-> Omitted(0),
     x_range |-> Omitted(PyNone), y_range |-> Omitted(PyNone),
     x_axis_type |-> Omitted(""), y_axis_type |-> Omitted("")]

CanvasIdle ==
    /\ cvArgs = NoArgs
    /\ cvSelf = NoCanvas
    /\ cvExc = "unset"

\* A call Canvas(...).
Construct ==
    /\ \E args \in CanvasArgs :
          /\ cvArgs' = args
          /\ cvSelf' = Canvas__init__(args).self
          /\ cvExc' = Canvas__init__(args).exc
    /\ UNCHANGED <<axVars, bpVars>>

----------------------------------------------------------------------------
\* The pipeline Dispatcher (datashader.utils.Dispatcher)

\* The classes of the sources tried, and the classes an implementation may be
\* registered for.  Derived extends Base; Other is unrelated to both.
SourceTypes == {"Derived", "Base", "Other"}
RegTypes == SourceTypes \cup {"object"}
Impls == {"f", "g"}

\* inspect.getmro(typ): the class, then its bases, most specific first.
getmro(typ) ==
    CASE typ = "Derived" -> <<"Derived", "Base", "object">>
      [] typ = "Base" -> <<"Base", "object">>
      [] typ = "Other" -> <<"Other", "object">>
      [] typ = "object" -> <<"object">>

EmptyLookup == [t \in {} |-> "f"]

\* Dispatcher.register(typ, func): the last registration for a type wins.
register(lk, typ, func) ==
    [t \in DOMAIN lk \cup {typ} |-> IF t = typ THEN func ELSE lk[t]]

\* Dispatcher.__call__: the implementation for type(head), else for the first
\* class of its mro that has one, else none (TypeError).
DispatchExactOnly(lk, typ) ==
    IF typ \in DOMAIN lk THEN lk[typ] ELSE "none"
Dispatch(lk, typ) ==
    LET mro == getmro(typ)
        hits == {i \in 1..Len(mro) : mro[i] \in DOMAIN lk}
    IN  IF hits = {} THEN "none"
        ELSE lk[mro[CHOOSE i \in hits : \A j \in hits : i <= j]]

----------------------------------------------------------------------------
\* bypixel, Canvas.points and their collaborators

\* discover(source) (odo): the source's datashape, or an error for a source
\* it knows nothing about.  A source carries what discover finds in it.
Shapes ==
    {[kind |-> "tabular", measure |-> c] : c \in {{"x", "y", "v"}, {"y", "v"}, {"x", "y"}, {"y"}}}
    \cup {[kind |-> "scalar", measure |-> {}], [kind |-> "unknown", measure |-> {}]}
Sources == [type : SourceTypes, shape : Shapes]

NoDshape == [kind |-> "unset", measure |-> {}]
discover(source) ==
    IF source.shape.kind = "unknown" THEN [exc |-> "NotImplementedError", dshape |-> NoDshape]
    ELSE [exc |-> "none", dshape |-> source.shape]

\* istabular(dshape) (datashape.predicates)
istabular(ds) == ds.kind = "tabular"

\* Point(x, y) (datashader.glyphs) and Point.validate(schema)
Point(x, y) == [class |-> "Point", x |-> x, y |-> y]
glyph_validate(glyph, sch) == glyph.x \in sch /\ glyph.y \in sch

\* A reduction over one column, and its validate(schema)
Summaries == {[class |-> "sum", column |-> "v"]}
summary_validate(summary, sch) == summary.column \in sch

NoOutcome == [kind |-> "none"]
Return(v) == [kind |-> "return", value |-> v]
Raise(e) == [kind |-> "raise", exc |-> e]

\* One collaborator called by the request: its name, its arguments, and
\* whether it returned (ok) or raised.
Call(fn, args, ok) == [fn |-> fn, args |-> args, ok |-> ok]

\* What a registered implementation returns for its arguments.
ImplResult(f, args) == [by |-> f, args |-> args]

\* Lines 78-80: the tabular check, then schema = dshape.measure.
CheckTabularSkipped(ds) ==
    [pc |-> "l81", outcome |-> NoOutcome, schema |-> ds.measure]
CheckTabular(ds) ==
    IF ~istabular(ds)
    THEN [pc |-> "done", outcome |-> Raise("ValueError: source must be tabular"), schema |-> {}]
    ELSE [pc |-> "l81", outcome |-> NoOutcome, schema |-> ds.measure]

\* Line 81: glyph.validate(schema); its error propagates.
GlyphValidateIgnored(glyph, sch) ==
    [pc |-> "l82", outcome |-> NoOutcome, ok |-> glyph_validate(glyph, sch)]
GlyphValidate(glyph, sch) ==
    IF glyph_validate(glyph, sch)
    THEN [pc |-> "l82", outcome |-> NoOutcome, ok |-> TRUE]
    ELSE [pc |-> "done", outcome |-> Raise("ValueError: glyph"), ok |-> FALSE]

\* Line 82: summary.validate(schema); its error propagates.
SummaryValidate(summary, sch) ==
    IF summary_validate(summary, sch)
    THEN [pc |-> "l83", outcome |-> NoOutcome, ok |-> TRUE]
    ELSE [pc |-> "done", outcome |-> Raise("ValueError: summary"), ok |-> FALSE]

\* Line 83: the arguments of pipeline(...).
PipelineArgsSwapped(r, ds, sch) == <<r.source, sch, r.canvas, r.summary, r.glyph>>
PipelineArgs(r, ds, sch) == <<r.source, sch, r.canvas, r.glyph, r.summary>>

NoReq == [set |-> FALSE]

BypixelIdle ==
    /\ lookup = EmptyLookup
    /\ pc = "off"
    /\ req = NoReq
    /\ dshape = NoDshape
    /\ schema = {}
    /\ calls = <<>>
    /\ outcome = NoOutcome

\* A backend module registers an implementation, between requests.
Register ==
    /\ pc = "idle"
    /\ \E typ \in RegTypes, func \in Impls : lookup' = register(lookup, typ, func)
    /\ UNCHANGED <<pc, req, dshape, schema, calls, outcome, axVars, cvVars>>

\* Canvas.points(source, x, y, agg): bypixel(source, self, Point(x, y), agg)
Points ==
    /\ pc = "idle"
    /\ \E source \in Sources, x \in {"x"}, y \in {"y"}, agg \in Summaries :
          req' = [set |-> TRUE, source |-> source, canvas |-> cvSelf,
                  glyph |-> Point(x, y), summary |-> agg]
    /\ pc' = "l77"
    /\ dshape' = NoDshape
    /\ schema' = {}
    /\ calls' = <<>>
    /\ outcome' = NoOutcome
    /\ UNCHANGED <<lookup, axVars, cvVars>>

\* Line 77: dshape = discover(source)
Discover ==
    /\ pc = "l77"
    /\ LET d == discover(req.source)
       IN  /\ dshape' = d.dshape
           /\ calls' = Append(calls, Call("discover", <<req.source>>, d.exc = "none"))
           /\ pc' = IF d.exc = "none" THEN "l78" ELSE "done"
           /\ outcome' = IF d.exc = "none" THEN NoOutcome ELSE Raise(d.exc)
    /\ UNCHANGED <<lookup, req, schema, axVars, cvVars>>

\* Lines 78-80
Tabular ==
    /\ pc = "l78"
    /\ LET c == CheckTabular(dshape)
       IN  /\ pc' = c.pc
           /\ outcome' = c.outcome
           /\ schema' = c.schema
    /\ UNCHANGED <<lookup, req, dshape, calls, axVars, cvVars>>

\* Line 81
ValidateGlyph ==
    /\ pc = "l81"
    /\ LET g == GlyphValidate(req.glyph, schema)
       IN  /\ pc' = g.pc
           /\ outcome' = g.outcome
           /\ calls' = Append(calls, Call("glyph.validate", <<schema>>, g.ok))
    /\ UNCHANGED <<lookup, req, dshape, schema, axVars, cvVars>>

\* Line 82
ValidateSummary ==
    /\ pc = "l82"
    /\ LET v == SummaryValidate(req.summary, schema)
       IN  /\ pc' = v.pc
           /\ outcome' = v.outcome
           /\ calls' = Append(calls, Call("summary.validate", <<schema>>, v.ok))
    /\ UNCHANGED <<lookup, req, dshape, schema, axVars, cvVars>>

\* Line 83: return pipeline(source, schema, canvas, glyph, summary).  The
\* Dispatcher finds no implementation (TypeError), or calls the one it finds,
\* which returns its result or raises.
Pipeline ==
    /\ pc = "l83"
    /\ LET args == PipelineArgs(req, dshape, schema)
           f == Dispatch(lookup, args[1].type)
       IN  IF f = "none"
           THEN /\ calls' = Append(calls, Call("pipeline", args, FALSE))
                /\ outcome' = Raise("TypeError: No dispatch")
           ELSE \E ok \in BOOLEAN :
                /\ calls' = calls \o <<Call("pipeline", args, ok), Call(f, args, ok)>>
                /\ outcome' = IF ok THEN Return(ImplResult(f, args))
                              ELSE Raise("BackendError")
    /\ pc' = "done"
    /\ UNCHANGED <<lookup, req, dshape, schema, axVars, cvVars>>

\* The caller has the result or the error; the next request may start.
Finish ==
    /\ pc = "done"
    /\ pc' = "idle"
    /\ UNCHANGED <<lookup, req, dshape, schema, calls, outcome, axVars, cvVars>>

----------------------------------------------------------------------------
\* Specifications

\* Requests through bypixel, with backends registering between them.
SmallCanvasArgs ==
    {a \in CanvasArgs :
        /\ ~a.plot_width.given /\ ~a.plot_height.given /\ ~a.y_range.given
        /\ ~a.y_axis_type.given /\ ~a.x_axis_type.given
        /\ a.x_range \in {Omitted(PyNone), Given(PyList(<<0, 9>>))}}

Init ==
    /\ AxisIdle
    /\ cvArgs \in SmallCanvasArgs
    /\ cvSelf = Canvas__init__(cvArgs).self
    /\ cvExc = Canvas__init__(cvArgs).exc
    /\ lookup = EmptyLookup
    /\ pc = "idle"
    /\ req = NoReq
    /\ dshape = NoDshape
    /\ schema = {}
    /\ calls = <<>>
    /\ outcome = NoOutcome

Next ==
    \/ Register
    \/ Points
    \/ Discover
    \/ Tabular
    \/ ValidateGlyph
    \/ ValidateSummary
    \/ Pipeline
    \/ Finish

Spec == Init /\ [][Next]_vars

\* Calls of the Axis methods.
InitAxis == AxisInit /\ CanvasIdle /\ BypixelIdle

NextAxis == ScaleAndTranslation \/ ComputeIndex \/ AxisCompare

SpecAxis == InitAxis /\ [][NextAxis]_vars

\* Constructions of Canvas objects.
InitCanvas == AxisIdle /\ CanvasIdle /\ BypixelIdle

NextCanvas == Construct

SpecCanvas == InitCanvas /\ [][NextCanvas]_vars

----------------------------------------------------------------------------
\* Properties of bypixel and the Dispatcher (under Spec)

CallsOf(fns) == {i \in DOMAIN calls : calls[i].fn \in fns}
Ancestry(typ) == {getmro(typ)[i] : i \in DOMAIN getmro(typ)}
GlyphFits(r) == r.glyph.x \in r.source.shape.measure /\ r.glyph.y \in r.source.shape.measure
SummaryFits(r) == r.summary.column \in r.source.shape.measure

\* C1: the pipeline (and any implementation behind it) is called only once
\* the datashape is tabular and glyph.validate and summary.validate have both
\* returned; a request whose glyph or summary does not fit the schema ends
\* with that validation's error and no call of the pipeline.
C1_PipelineOnlyAfterChecks ==
    /\ \A i \in CallsOf({"pipeline"} \cup Impls) :
          /\ istabular(dshape)
          /\ \E j \in 1..(i - 1) : calls[j].fn = "glyph.validate" /\ calls[j].ok
          /\ \E j \in 1..(i - 1) : calls[j].fn = "summary.validate" /\ calls[j].ok
    /\ (pc = "done" /\ istabular(dshape) /\ ~(GlyphFits(req) /\ SummaryFits(req))) =>
          /\ outcome = (IF ~GlyphFits(req) THEN Raise("ValueError: glyph")
                        ELSE Raise("ValueError: summary"))
          /\ CallsOf({"pipeline"} \cup Impls) = {}

C1_Witness ==
    /\ pc = "done"
    /\ istabular(dshape)
    /\ "x" \notin schema
    /\ req.glyph.x = "x"
    /\ outcome = Raise("ValueError: glyph")
    /\ CallsOf({"pipeline"}) = {}
    /\ Dispatch(lookup, req.source.type) # "none"

\* C2: a request whose discovered datashape is not tabular ends with
\* ValueError("source must be tabular") and calls neither glyph.validate nor
\* summary.validate nor the pipeline.
C2_NonTabularFailsFirst ==
    (req.set /\ dshape.kind = "scalar") =>
        /\ CallsOf({"glyph.validate", "summary.validate", "pipeline"} \cup Impls) = {}
        /\ pc \in {"l78", "done", "idle"}
        /\ pc # "l78" => outcome = Raise("ValueError: source must be tabular")

C2_Witness ==
    /\ pc = "done"
    /\ dshape.kind = "scalar"
    /\ outcome = Raise("ValueError: source must be tabular")
    /\ CallsOf({"discover"}) # {}
    /\ Dispatch(lookup, req.source.type) # "none"

\* C3: when the pipeline has been called, the implementation invoked is the
\* one registered for the most specific registered class in the ancestry of
\* type(source); with no registered class in that ancestry the call ends in
\* the dispatch-miss TypeError and no implementation is invoked.
C3_DispatchMostSpecific ==
    (pc = "done" /\ CallsOf({"pipeline"}) # {}) =>
        LET reg == Ancestry(req.source.type) \cap DOMAIN lookup
        IN  IF reg = {}
            THEN outcome = Raise("TypeError: No dispatch") /\ CallsOf(Impls) = {}
            ELSE \E T \in reg :
                    /\ \A A \in reg : A \in Ancestry(T)
                    /\ Cardinality(CallsOf(Impls)) = 1
                    /\ CallsOf({lookup[T]}) # {}

C3_Witness ==
    /\ pc = "done"
    /\ req.source.type = "Derived"
    /\ "Derived" \notin DOMAIN lookup
    /\ "Base" \in DOMAIN lookup
    /\ "object" \in DOMAIN lookup
    /\ lookup["object"] # lookup["Base"]
    /\ CallsOf({lookup["Base"]}) # {}

\* C10: a request with a tabular source that glyph and summary fit calls the
\* pipeline exactly once, with (source, dshape.measure, canvas, glyph,
\* summary); it returns what the implementation returned, or ends with the
\* error the pipeline raised, after that one call; the Canvas is as it was.
C10_DelegatesOnce ==
    (pc = "done" /\ istabular(dshape) /\ GlyphFits(req) /\ SummaryFits(req)) =>
        /\ Cardinality(CallsOf({"pipeline"})) = 1
        /\ Cardinality(CallsOf(Impls)) <= 1
        /\ \A i \in CallsOf({"pipeline"} \cup Impls) :
              /\ calls[i].args[1] = req.source
              /\ calls[i].args[2] = req.source.shape.measure
              /\ calls[i].args[3] = cvSelf
              /\ calls[i].args[4] = Point("x", "y")
              /\ calls[i].args[5] = req.summary
        /\ \A i \in CallsOf(Impls) :
              outcome = (IF calls[i].ok THEN Return(ImplResult(calls[i].fn, calls[i].args))
                         ELSE Raise("BackendError"))
        /\ CallsOf(Impls) = {} => outcome = Raise("TypeError: No dispatch")
        /\ cvSelf = req.canvas
        /\ cvSelf = Canvas__init__(cvArgs).self

C10_Witness ==
    /\ pc = "done"
    /\ outcome.kind = "return"
    /\ outcome.value.args = <<req.source, schema, cvSelf, Point("x", "y"), req.summary>>
    /\ cvSelf.x_range = PyTuple(<<0, 9>>)
    /\ Len(calls) = 5

----------------------------------------------------------------------------
\* Properties of the Axis methods (under SpecAxis)

mstart == mapper(axSelf, axRange[1])
mend == mapper(axSelf, axRange[2])
\* Zero width: mapper(end) == mapper(start).
Degenerate == FEq(mend, mstart)
\* Not zero width, in data space and as mapped.
NonDegenerate == axRange[1] # axRange[2] /\ ~Degenerate
FiniteBounds == IsFinite(mstart) /\ IsFinite(mend)

\* C4: a zero-width range, mapper(end) == mapper(start), makes
\* scale_and_translation raise; it returns no pair (s, t).
C4_DegenerateRangeRaises ==
    (axPc # "start" /\ Degenerate) => axSt.exc \notin {"none", "unset"}

\* C5 as claimed: for n >= 2 and every range with mapper(end) # mapper(start),
\* compute_index(n, scale_and_translation(range, n)) has n elements, the
\* first equal to start and the last equal to end.
C5_RoundTripEveryRange ==
    (axPc # "start" /\ axN >= 2 /\ NonDegenerate) =>
        /\ axSt.exc = "none"
        /\ axPc = "indexed" =>
              /\ Len(axIndex) = axN
              /\ FEq(axIndex[1], axRange[1])
              /\ FEq(axIndex[axN], axRange[2])

\* C5 amended: the same, for the ranges whose mapped bounds are finite (any
\* finite bounds with the linear policy, positive ones with the log policy).
C5_RoundTrip ==
    (axPc # "start" /\ axN >= 2 /\ NonDegenerate /\ FiniteBounds) =>
        /\ axSt.exc = "none"
        /\ axPc = "indexed" =>
              /\ Len(axIndex) = axN
              /\ FEq(axIndex[1], axRange[1])
              /\ FEq(axIndex[axN], axRange[2])

C5_Witness ==
    /\ axPc = "indexed"
    /\ axSelf.class = "LogAxis"
    /\ axRange = <<Rat(1, 10), Rat(100, 1)>>
    /\ axN = 3
    /\ axIndex[1] = Rat(1, 10)
    /\ axIndex[2].p = 1
    /\ axIndex[3] = Rat(100, 1)

\* C6 as claimed: for every range with mapper(end) # mapper(start), the pair
\* (s, t) returned puts mapper(start) at pixel 0 and mapper(end) at pixel
\* n - 1, with s * (mapper(end) - mapper(start)) = n - 1; and the linear axis
\* gives (1, 0) for ((0, 9), 10), and [0, 1, ..., 9] for (10, (1, 0)).
Lands ==
    /\ axSt.exc = "none"
    /\ FEq(Mul(axSt.s, Sub(mend, mstart)), Int2Num(axN - 1))
    /\ FEq(axSt.t, Neg(Mul(mstart, axSt.s)))
    /\ FEq(Add(Mul(mstart, axSt.s), axSt.t), Zero)
    /\ FEq(Add(Mul(mend, axSt.s), axSt.t), Int2Num(axN - 1))

LinearExample ==
    (axSelf.class = "LinearAxis" /\ axRange = <<Zero, Int2Num(9)>> /\ axN = 10) =>
        /\ axSt = [exc |-> "none", s |-> Int2Num(1), t |-> Zero]
        /\ axPc = "indexed" => axIndex = [i \in 1..10 |-> Int2Num(i - 1)]

C6_LandsEveryRange ==
    (axPc # "start" /\ NonDegenerate) => Lands /\ LinearExample

\* C6 amended: the same, for the ranges whose mapped bounds are finite.
C6_Lands ==
    (axPc # "start" /\ NonDegenerate /\ FiniteBounds) => Lands /\ LinearExample

C6_Witness ==
    /\ axPc = "indexed"
    /\ axSelf.class = "LinearAxis"
    /\ axRange = <<Zero, Int2Num(9)>>
    /\ axN = 10
    /\ axSt.s = Int2Num(1)
    /\ axIndex[10] = Int2Num(9)

\* C7: two Axis instances are equal exactly when they are of the same class,
\* whichever instances they are; != is the negation of ==; equal instances
\* have equal hashes.
C7_EqualIffSameVariant ==
    cmp.set =>
        /\ cmp.eq <=> (cmp.a.class = cmp.b.class)
        /\ cmp.ne <=> ~cmp.eq
        /\ cmp.eq => cmp.ha = cmp.hb

C7_Witness ==
    /\ cmp.set
    /\ cmp.a.id # cmp.b.id
    /\ cmp.a.class = "LogAxis"
    /\ cmp.b.class = "LogAxis"
    /\ cmp.eq
    /\ ~cmp.ne

----------------------------------------------------------------------------
\* Properties of Canvas.__init__ (under SpecCanvas)

NameOf(arg) == IF arg.given THEN arg.v ELSE "linear"
ClassNamed(name) == IF name = "linear" THEN "LinearAxis" ELSE "LogAxis"

\* C8: an axis type outside {'linear', 'log'} makes the construction fail
\* with KeyError and yield no Canvas; otherwise x_axis and y_axis are the
\* policies of the names given, the linear policy for a name left out.
C8_AxisTypeLookup ==
    cvExc # "unset" =>
        LET xn == NameOf(cvArgs.x_axis_type)
            yn == NameOf(cvArgs.y_axis_type)
        IN  IF xn \notin {"linear", "log"} \/ yn \notin {"linear", "log"}
            THEN cvExc = "KeyError" /\ ~cvSelf.made
            ELSE /\ cvExc = "none"
                 /\ cvSelf.made
                 /\ cvSelf.x_axis.class = ClassNamed(xn)
                 /\ cvSelf.y_axis.class = ClassNamed(yn)

C8_Witness ==
    /\ cvArgs.x_axis_type = Given("bogus")
    /\ cvArgs.y_axis_type = Given("log")
    /\ cvExc = "KeyError"
    /\ ~cvSelf.made

\* C9: the x_range and y_range of every Canvas constructed are each a tuple
\* or None, whatever was passed.
C9_RangesTupleOrNone ==
    cvSelf.made =>
        /\ cvSelf.x_range.type \in {"tuple", "NoneType"}
        /\ cvSelf.y_range.type \in {"tuple", "NoneType"}

====
